---- MODULE Spec2Model ----
(***************************************************************************)
(* Model of server.py: the Flask application that serves the exam          *)
(* application's static files and GET/OPTIONS /api/questions.              *)
(*                                                                         *)
(* Text is a sequence of characters.  A character is a record [k, c]:      *)
(* k = "ch" is the single character c (the backquote is written "bq");    *)
(* k = "str" is a whole JSON string literal, quotes included, whose        *)
(* content is c, kept as one unit because nothing in server.py looks       *)
(* inside a string literal.                                                *)
(***************************************************************************)
EXTENDS Integers, Sequences, FiniteSets, TLC

VARIABLES API_KEY, pc, request, text_response, response, printed, genCalls,
          callsOf, handled

vars == <<API_KEY, pc, request, text_response, response, printed, genCalls,
          callsOf, handled>>

----------------------------------------------------------------------------
(* Bounds of the model *)

\* worker threads of the development server handling requests concurrently
NumThreads == 2
\* requests accepted over the life of the process
MaxRequests == 3
\* longest array of question objects the generator is made to return
MaxItems == 6

Threads == 1..NumThreads

----------------------------------------------------------------------------
(* Characters and text *)

Ch(c) == [k |-> "ch", c |-> c]
SL(s) == [k |-> "str", c |-> s]

RECURSIVE Chars(_)
\* the text made of the single characters cs
Chars(cs) == IF cs = <<>> THEN <<>> ELSE <<Ch(Head(cs))>> \o Chars(Tail(cs))

IsCh(s, i, c) == i >= 1 /\ i <= Len(s) /\ s[i].k = "ch" /\ s[i].c = c

\* str.isspace over the model's alphabet
IsSpace(s, i) == IsCh(s, i, " ") \/ IsCh(s, i, "\n")

RECURSIVE FirstNonSpace(_, _)
FirstNonSpace(s, i) ==
    IF IsSpace(s, i) THEN FirstNonSpace(s, i + 1) ELSE i

RECURSIVE LastNonSpace(_, _)
LastNonSpace(s, i) ==
    IF IsSpace(s, i) THEN LastNonSpace(s, i - 1) ELSE i

\* str.strip()
Strip(s) ==
    LET a == FirstNonSpace(s, 1)
        b == LastNonSpace(s, Len(s))
    IN  IF a > b THEN <<>> ELSE SubSeq(s, a, b)

\* str.startswith(p)
StartsWith(s, p) == Len(s) >= Len(p) /\ SubSeq(s, 1, Len(p)) = p

\* str.endswith(p)
EndsWith(s, p) ==
    Len(s) >= Len(p) /\ SubSeq(s, Len(s) - Len(p) + 1, Len(s)) = p

\* s[n:]
DropFirst(s, n) == IF n >= Len(s) THEN <<>> ELSE SubSeq(s, n + 1, Len(s))

\* s[:-n]
DropLast(s, n) == IF n >= Len(s) THEN <<>> ELSE SubSeq(s, 1, Len(s) - n)

Fence == Chars(<<"bq", "bq", "bq">>)
JsonFence == Fence \o Chars(<<"j", "s", "o", "n">>)

\* CleanFences with the two startswith tests in the other order: the bare
\* fence is cut first and the word json stays in the text
CleanFencesBareFirst(raw) ==
    LET t0 == Strip(raw)
        t1 == IF StartsWith(t0, Fence) THEN DropFirst(t0, 3) ELSE t0
        t2 == IF StartsWith(t1, JsonFence) THEN DropFirst(t1, 7) ELSE t1
    IN  IF EndsWith(t2, Fence) THEN DropLast(t2, 3) ELSE t2

\* "Clean up markdown code blocks if present"
CleanFences(raw) ==
    LET t0 == Strip(raw)
        t1 == IF StartsWith(t0, JsonFence) THEN DropFirst(t0, 7) ELSE t0
        t2 == IF StartsWith(t1, Fence) THEN DropFirst(t1, 3) ELSE t1
    IN  IF EndsWith(t2, Fence) THEN DropLast(t2, 3) ELSE t2

----------------------------------------------------------------------------
(* Python values, as json.loads builds them *)

None == [t |-> "null"]
Num(n) == [t |-> "num", n |-> n]
Str(s) == [t |-> "str", s |-> s]
List(items) == [t |-> "list", items |-> items]
\* a dict is its (key, value) pairs in insertion order, keys distinct
Dict(members) == [t |-> "dict", members |-> members]

IsList(v) == v.t = "list"
IsDict(v) == v.t = "dict"

HasKey(members, key) == \E i \in 1..Len(members) : members[i][1] = key

\* d[key] = v
SetItem(members, key, v) ==
    IF HasKey(members, key)
    THEN [i \in 1..Len(members) |->
             IF members[i][1] = key THEN <<key, v>> ELSE members[i]]
    ELSE Append(members, <<key, v>>)

\* d[key], for a key that is present
GetItem(members, key) ==
    LET i == CHOOSE j \in 1..Len(members) : members[j][1] = key
    IN  members[i][2]

----------------------------------------------------------------------------
(* json.loads, over the model's alphabet *)

Failed(i) == [ok |-> FALSE, val |-> None, pos |-> i]
Parsed(v, i) == [ok |-> TRUE, val |-> v, pos |-> i]

Digits == {"0", "1", "2", "3", "4", "5", "6", "7", "8", "9"}

DigitVal(c) ==
    CASE c = "0" -> 0 [] c = "1" -> 1 [] c = "2" -> 2 [] c = "3" -> 3
      [] c = "4" -> 4 [] c = "5" -> 5 [] c = "6" -> 6 [] c = "7" -> 7
      [] c = "8" -> 8 [] c = "9" -> 9

IsDigit(s, i) == i <= Len(s) /\ s[i].k = "ch" /\ s[i].c \in Digits

RECURSIVE ParseDigits(_, _, _)
\* the rest of an integer whose digits so far give acc
ParseDigits(s, i, acc) ==
    IF IsDigit(s, i)
    THEN ParseDigits(s, i + 1, acc * 10 + DigitVal(s[i].c))
    ELSE Parsed(Num(acc), i)

\* an integer: 0, or a nonzero digit and more digits
ParseNumber(s, i) ==
    IF IsCh(s, i, "0") THEN Parsed(Num(0), i + 1)
    ELSE ParseDigits(s, i + 1, DigitVal(s[i].c))

NullWord == Chars(<<"n", "u", "l", "l">>)

RECURSIVE ParseValue(_, _)
RECURSIVE ParseElements(_, _, _)
RECURSIVE ParseMembers(_, _, _)

\* the value that starts at s[i]
ParseValue(s, i) ==
    IF i > Len(s) THEN Failed(i)
    ELSE IF s[i].k = "str" THEN Parsed(Str(s[i].c), i + 1)
    ELSE IF IsDigit(s, i) THEN ParseNumber(s, i)
    ELSE IF IsCh(s, i, "n") THEN
         IF i + 3 <= Len(s) /\ SubSeq(s, i, i + 3) = NullWord
         THEN Parsed(None, i + 4) ELSE Failed(i)
    ELSE IF IsCh(s, i, "[") THEN
         LET j == FirstNonSpace(s, i + 1)
         IN  IF IsCh(s, j, "]") THEN Parsed(List(<<>>), j + 1)
             ELSE ParseElements(s, j, <<>>)
    ELSE IF IsCh(s, i, "{") THEN
         LET j == FirstNonSpace(s, i + 1)
         IN  IF IsCh(s, j, "}") THEN Parsed(Dict(<<>>), j + 1)
             ELSE ParseMembers(s, j, <<>>)
    ELSE Failed(i)

\* the elements of an array from s[i] on, after the elements acc
ParseElements(s, i, acc) ==
    LET e == ParseValue(s, i)
        j == FirstNonSpace(s, e.pos)
    IN  IF ~e.ok THEN Failed(i)
        ELSE IF IsCh(s, j, "]") THEN Parsed(List(Append(acc, e.val)), j + 1)
        ELSE IF IsCh(s, j, ",")
             THEN ParseElements(s, FirstNonSpace(s, j + 1), Append(acc, e.val))
        ELSE Failed(j)

\* the members of an object from s[i] on, after the members acc
ParseMembers(s, i, acc) ==
    IF ~(i <= Len(s) /\ s[i].k = "str") THEN Failed(i)
    ELSE LET c == FirstNonSpace(s, i + 1)
             e == ParseValue(s, FirstNonSpace(s, c + 1))
             j == FirstNonSpace(s, e.pos)
             now == SetItem(acc, s[i].c, e.val)
         IN  IF ~IsCh(s, c, ":") THEN Failed(c)
             ELSE IF ~e.ok THEN Failed(e.pos)
             ELSE IF IsCh(s, j, "}") THEN Parsed(Dict(now), j + 1)
             ELSE IF IsCh(s, j, ",")
                  THEN ParseMembers(s, FirstNonSpace(s, j + 1), now)
             ELSE Failed(j)

\* json.loads(s): ok is FALSE where it raises JSONDecodeError
loads(s) ==
    LET v == ParseValue(s, FirstNonSpace(s, 1))
    IN  IF v.ok /\ FirstNonSpace(s, v.pos) = Len(s) + 1 THEN v
        ELSE Failed(v.pos)

----------------------------------------------------------------------------
(* Responses *)

\* a body that is not JSON: the bytes of a file, or nothing
Bytes(s) == [t |-> "bytes", s |-> s]

Response(status, type, body) ==
    [status |-> status, body |-> body, headers |-> <<<<"Content-Type", type>>>>]

\* response.headers.add(name, value): one more entry, whatever is there
AddHeader(r, name, value) ==
    [r EXCEPT !.headers = Append(@, <<name, value>>)]

\* the values of the entries of r named name, in order
HeaderValues(r, name) ==
    LET RECURSIVE Pick(_)
        Pick(i) == IF i > Len(r.headers) THEN <<>>
                   ELSE IF r.headers[i][1] = name
                        THEN <<r.headers[i][2]>> \o Pick(i + 1)
                        ELSE Pick(i + 1)
    IN  Pick(1)

\* make_response()
make_response == Response(200, "text/html", Bytes(""))

\* jsonify(v)
jsonify(v) == Response(200, "application/json", v)

\* send_from_directory('.', name): the file, or NotFound when there is none
send_from_directory(name, exists) ==
    IF exists THEN Response(200, "application/octet-stream", Bytes(name))
    ELSE Response(404, "text/html", Bytes("Not Found"))

_build_cors_preflight_response ==
    AddHeader(AddHeader(AddHeader(make_response,
        "Access-Control-Allow-Origin", "*"),
        "Access-Control-Allow-Headers", "*"),
        "Access-Control-Allow-Methods", "*")

_corsify_actual_response(r) ==
    AddHeader(AddHeader(AddHeader(r,
        "Access-Control-Allow-Origin", "*"),
        "Cross-Origin-Opener-Policy", "same-origin"),
        "Cross-Origin-Embedder-Policy", "require-corp")

\* after_request without the call of _corsify_actual_response
after_request_unwrapped(r) == r

after_request(r) == _corsify_actual_response(r)

----------------------------------------------------------------------------
(* The question provider *)

Question(id, text, topic) ==
    Dict(<<<<"id", Num(id)>>, <<"text", Str(text)>>, <<"topic", Str(topic)>>>>)

fallback_questions ==
    List(<<Question(1, "Explain the concept of Object-Oriented Programming (OOP) and list its four main principles with brief descriptions.", "OOP Principles"),
           Question(2, "What is the difference between a stack and a queue data structure? Provide examples of real-world applications for each.", "Data Structures"),
           Question(3, "Describe what an API (Application Programming Interface) is and explain the difference between REST and GraphQL APIs.", "APIs"),
           Question(4, "What is machine learning? Explain the difference between supervised and unsupervised learning with examples.", "Machine Learning"),
           Question(5, "Explain the concept of database normalization. What are the benefits and when might you choose to denormalize?", "Databases")>>)

\* "if API_KEY is not None" in the place of "if API_KEY"
TruthyNotNone(v) == v # None

\* "if not API_KEY": None and the empty string are both false
Truthy(v) == ~(v = None \/ v = Str(""))

\* "for i, q in enumerate(questions): q['id'] = i + 1".  ok is FALSE where
\* the loop raises TypeError: enumerate of a number or None, or item
\* assignment on anything but a dict.  Iterating a dict yields its keys and
\* iterating a str its characters, so only the empty ones pass.
Renumber(questions) ==
    CASE questions.t = "list" ->
           IF \A i \in 1..Len(questions.items) : IsDict(questions.items[i])
           THEN [ok |-> TRUE,
                 val |-> List([i \in 1..Len(questions.items) |->
                     Dict(SetItem(questions.items[i].members, "id", Num(i)))])]
           ELSE [ok |-> FALSE, val |-> questions]
      [] questions.t = "dict" ->
           [ok |-> questions.members = <<>>, val |-> questions]
      [] questions.t = "str" ->
           [ok |-> questions.s = "", val |-> questions]
      [] OTHER -> [ok |-> FALSE, val |-> questions]

\* what generate_content did: it raised, or it returned a response with text
Raised == [kind |-> "raise", text |-> <<>>]
Returned(text) == [kind |-> "text", text |-> text]
NoOutcome == [kind |-> "none", text |-> <<>>]

\* the try block after generate_content: ok is FALSE where it raises
TryQuestions(outcome) ==
    IF outcome.kind = "raise" THEN [ok |-> FALSE, val |-> None]
    ELSE LET questions == loads(CleanFences(outcome.text))
         IN  IF ~questions.ok THEN [ok |-> FALSE, val |-> None]
             ELSE Renumber(questions.val)

\* GeneratedResponse with "except json.JSONDecodeError" in the place of
\* "except Exception": what generate_content raises leaves the handler and
\* Flask answers 500
GeneratedResponseNarrowExcept(outcome) ==
    LET got == TryQuestions(outcome)
    IN  IF got.ok THEN _corsify_actual_response(jsonify(got.val))
        ELSE IF outcome.kind = "raise"
             THEN Response(500, "text/html", Bytes("Internal Server Error"))
        ELSE _corsify_actual_response(jsonify(fallback_questions))

\* the response the handler returns once generate_content is over
GeneratedResponse(outcome) ==
    LET got == TryQuestions(outcome)
    IN  IF got.ok THEN _corsify_actual_response(jsonify(got.val))
        ELSE _corsify_actual_response(jsonify(fallback_questions))

\* the lines the handler prints once generate_content is over
GeneratedLines(outcome) ==
    IF TryQuestions(outcome).ok
    THEN <<"[API] Successfully generated questions.">>
    ELSE <<"[API] Error generating questions">>

----------------------------------------------------------------------------
(* What the generator may return: the input space of the model *)

RECURSIVE JoinComma(_)
JoinComma(texts) ==
    IF texts = <<>> THEN <<>>
    ELSE IF Len(texts) = 1 THEN texts[1]
    ELSE texts[1] \o <<Ch(",")>> \o JoinComma(Tail(texts))

ArrText(elems) == <<Ch("[")>> \o JoinComma(elems) \o <<Ch("]")>>
ObjText(members) == <<Ch("{")>> \o JoinComma(members) \o <<Ch("}")>>
Member(key, val) == <<SL(key), Ch(":")>> \o val

\* a question object as the generator writes it, with the id it chose
QText(id, text) ==
    ObjText(<<Member("id", id), Member("text", <<SL(text)>>),
              Member("topic", <<SL("Y")>>)>>)
\* a question object with no id at all
QNoId(text) ==
    ObjText(<<Member("text", <<SL(text)>>), Member("topic", <<SL("Y")>>)>>)

\* five questions whose ids are duplicated, zero, out of order and missing
FiveOddIds ==
    ArrText(<<QText(Chars(<<"9">>), "A"), QText(Chars(<<"9">>), "B"),
              QText(Chars(<<"0">>), "C"), QText(Chars(<<"1", "2">>), "D"),
              QNoId("E")>>)

\* n questions, all with id 7
ArrayOfN(n) == ArrText([i \in 1..n |-> QText(Chars(<<"7">>), "X")])

\* JSON arrays of objects
ObjectArrays == {FiveOddIds} \cup {ArrayOfN(n) : n \in {0, 1, MaxItems}}

\* JSON arrays of objects that lack the text or the topic field
LackingFields ==
    { ArrText(<<ObjText(<<Member("id", Chars(<<"1">>))>>)>>),
      ArrText(<<ObjText(<<Member("text", <<SL("X")>>)>>)>>) }

\* JSON arrays with an element that is not an object
NonObjectElements ==
    { ArrText(<<Chars(<<"1">>)>>),
      ArrText(<<<<SL("X")>>>>),
      ArrText(<<Chars(<<"[", "]">>)>>),
      ArrText(<<Chars(<<"n", "u", "l", "l">>)>>),
      ArrText(<<QText(Chars(<<"1">>), "X"), Chars(<<"5">>)>>) }

\* JSON values that are not arrays
NonArrays ==
    { Chars(<<"{", "}">>),
      <<SL("")>>,
      ObjText(<<Member("text", <<SL("X")>>)>>),
      <<SL("X")>>,
      Chars(<<"5">>),
      Chars(<<"n", "u", "l", "l">>) }

\* text that is not JSON
Malformed ==
    { <<>>,
      Chars(<<"[", "1", ",", "]">>),
      <<Ch("{"), SL("id"), Ch("1"), Ch("}")>>,
      Chars(<<"[", "]", "s", "o">>) }

BaseTexts ==
    ObjectArrays \cup LackingFields \cup NonObjectElements \cup NonArrays
        \cup Malformed

WrapKinds == {"space", "json", "bare", "jsonbare", "spacejson"}

\* T inside a fence or inside whitespace
Wrap(kind, T) ==
    CASE kind = "space" -> Chars(<<" ", "\n">>) \o T \o Chars(<<"\n", " ">>)
      [] kind = "json" -> JsonFence \o Chars(<<"\n">>) \o T
                              \o Chars(<<"\n">>) \o Fence
      [] kind = "bare" -> Fence \o Chars(<<"\n">>) \o T
                              \o Chars(<<"\n">>) \o Fence
      [] kind = "jsonbare" -> JsonFence \o Fence \o T \o Fence
      [] kind = "spacejson" -> Chars(<<"\n">>) \o JsonFence \o Chars(<<" ">>)
                              \o T \o Fence \o Chars(<<" ", "\n">>)

\* the texts that are also returned wrapped
WrappedBases ==
    { FiveOddIds, ArrText(<<Chars(<<"1">>)>>), Chars(<<"{", "}">>) }

GeneratorTexts ==
    BaseTexts \cup {Wrap(k, T) : k \in WrapKinds, T \in WrappedBases}

GeneratorOutcomes == {Raised} \cup {Returned(T) : T \in GeneratorTexts}

\* the handler's answer to each outcome, worked out once
Handled ==
    [outcome \in GeneratorOutcomes |->
        [response |-> GeneratedResponse(outcome),
         lines |-> GeneratedLines(outcome)]]

----------------------------------------------------------------------------
(* The process *)

NoResponse == Response(0, "", Bytes(""))
NoRequest == [method |-> "", path |-> ""]

\* os.getenv("GEMINI_API_KEY"), read once when the module is loaded
Init ==
    /\ API_KEY \in {None, Str(""), Str("key")}
    /\ pc = [t \in Threads |-> "idle"]
    /\ request = [t \in Threads |-> NoRequest]
    /\ text_response = [t \in Threads |-> NoOutcome]
    /\ response = [t \in Threads |-> NoResponse]
    /\ printed = [t \in Threads |-> <<>>]
    /\ callsOf = [t \in Threads |-> 0]
    /\ genCalls = 0
    /\ handled = 0

\* thread t takes the next request off the socket
Accept(t, method, path) ==
    /\ pc[t] = "idle"
    /\ handled < MaxRequests
    /\ handled' = handled + 1
    /\ request' = [request EXCEPT ![t] = [method |-> method, path |-> path]]
    /\ text_response' = [text_response EXCEPT ![t] = NoOutcome]

\* the handler of thread t returns r after printing lines
Finish(t, r, lines) ==
    /\ response' = [response EXCEPT ![t] = after_request(r)]
    /\ printed' = [printed EXCEPT ![t] = lines]
    /\ pc' = [pc EXCEPT ![t] = "idle"]

\* the handler of thread t never reaches model.generate_content
NoCall(t) ==
    /\ callsOf' = [callsOf EXCEPT ![t] = 0]
    /\ UNCHANGED <<API_KEY, genCalls>>

\* GET /
index(t) ==
    /\ Accept(t, "GET", "/")
    /\ \E exists \in BOOLEAN :
           Finish(t, send_from_directory("index.html", exists), <<>>)
    /\ NoCall(t)

\* GET /<path>
serve_file(t) ==
    /\ Accept(t, "GET", "/asset")
    /\ \E exists \in BOOLEAN :
           Finish(t, send_from_directory("asset", exists), <<>>)
    /\ NoCall(t)

\* Preflight without the test of request.method: the request runs into
\* the provider
PreflightFallsThrough(t) ==
    /\ Accept(t, "OPTIONS", "/api/questions")
    /\ Finish(t, _corsify_actual_response(jsonify(fallback_questions)),
              <<"[API] No Gemini API Key found. Serving fallback questions.">>)
    /\ NoCall(t)

\* OPTIONS /api/questions
Preflight(t) ==
    /\ Accept(t, "OPTIONS", "/api/questions")
    /\ Finish(t, _build_cors_preflight_response, <<>>)
    /\ NoCall(t)

\* GET /api/questions, "if not API_KEY"
ServeFallback(t) ==
    /\ ~Truthy(API_KEY)
    /\ Accept(t, "GET", "/api/questions")
    /\ Finish(t, _corsify_actual_response(jsonify(fallback_questions)),
              <<"[API] No Gemini API Key found. Serving fallback questions.">>)
    /\ NoCall(t)

\* GET /api/questions with a key: up to the call of model.generate_content
Generate(t) ==
    /\ Truthy(API_KEY)
    /\ Accept(t, "GET", "/api/questions")
    /\ printed' = [printed EXCEPT
                      ![t] = <<"[API] Generating questions with Gemini...">>]
    /\ genCalls' = genCalls + 1
    /\ callsOf' = [callsOf EXCEPT ![t] = 1]
    /\ pc' = [pc EXCEPT ![t] = "generate_content"]
    /\ UNCHANGED <<API_KEY, response>>

\* Generated with one more call of generate_content after a failed one
GeneratedRetry(t) ==
    /\ pc[t] = "generate_content"
    /\ \E outcome \in GeneratorOutcomes :
           IF outcome = Raised /\ callsOf[t] = 1
           THEN /\ callsOf' = [callsOf EXCEPT ![t] = 2]
                /\ genCalls' = genCalls + 1
                /\ UNCHANGED <<text_response, response, printed, pc>>
           ELSE /\ text_response' = [text_response EXCEPT ![t] = outcome]
                /\ Finish(t, Handled[outcome].response,
                          printed[t] \o Handled[outcome].lines)
                /\ UNCHANGED <<genCalls, callsOf>>
    /\ UNCHANGED <<API_KEY, request, handled>>

\* generate_content is over: the rest of the handler
Generated(t) ==
    /\ pc[t] = "generate_content"
    /\ \E outcome \in GeneratorOutcomes :
           /\ text_response' = [text_response EXCEPT ![t] = outcome]
           /\ Finish(t, Handled[outcome].response,
                     printed[t] \o Handled[outcome].lines)
    /\ UNCHANGED <<API_KEY, request, genCalls, callsOf, handled>>

Next ==
    \E t \in Threads :
        \/ index(t)
        \/ serve_file(t)
        \/ Preflight(t)
        \/ ServeFallback(t)
        \/ Generate(t)
        \/ Generated(t)

Spec == Init /\ [][Next]_vars

----------------------------------------------------------------------------
(* Vocabulary of the properties *)

QuestionsGet == [method |-> "GET", path |-> "/api/questions"]

\* thread t has answered a GET /api/questions, and response[t] is the answer
AnsweredGet(t) == pc[t] = "idle" /\ request[t] = QuestionsGet

\* thread t has answered an OPTIONS /api/questions
AnsweredPreflight(t) == pc[t] = "idle" /\ request[t].method = "OPTIONS"

\* thread t has sent some response
Answered(t) == response[t] # NoResponse

\* the process was started without a usable GEMINI_API_KEY
NoCredential == API_KEY \in {None, Str("")}

\* the ids of a body, position by position; <<>> for a body with no records
Ids(body) ==
    IF body.t = "list"
       /\ \A i \in 1..Len(body.items) :
              IsDict(body.items[i]) /\ HasKey(body.items[i].members, "id")
    THEN [i \in 1..Len(body.items) |-> GetItem(body.items[i].members, "id")]
    ELSE <<>>

\* a sequence of exactly 5 records whose ids are 1, 2, 3, 4, 5 in order
FiveRecords(body) ==
    /\ body.t = "list"
    /\ Len(body.items) = 5
    /\ Ids(body) = <<Num(1), Num(2), Num(3), Num(4), Num(5)>>

Topics(body) ==
    [i \in 1..Len(body.items) |-> GetItem(body.items[i].members, "topic")]

\* the generator's text as json.loads sees it, for each text
Decoded == [T \in GeneratorTexts |-> loads(CleanFences(T))]

\* thread t got text from the generator and json.loads raised on it
NotJson(t) ==
    /\ text_response[t].kind = "text"
    /\ ~Decoded[text_response[t].text].ok

\* a parsed value that is no array of objects having text and topic
WrongShape(v) ==
    \/ ~IsList(v)
    \/ \E i \in 1..Len(v.items) :
           \/ ~IsDict(v.items[i])
           \/ ~HasKey(v.items[i].members, "text")
           \/ ~HasKey(v.items[i].members, "topic")

\* a parsed value that is an array of objects
ArrayOfObjects(v) ==
    IsList(v) /\ \A i \in 1..Len(v.items) : IsDict(v.items[i])

\* the texts of the input space that are JSON arrays as they stand
ArrayTexts == ObjectArrays \cup LackingFields \cup NonObjectElements

----------------------------------------------------------------------------
(* The claims *)

\* C1: whatever the generator did, the body of a GET /api/questions response
\* is a sequence of exactly 5 records whose ids are 1,2,3,4,5 in that order.
C1_AlwaysFiveRecords ==
    \A t \in Threads : AnsweredGet(t) => FiveRecords(response[t].body)

\* C2: a GET /api/questions always ends in HTTP 200, and with the credential
\* absent, the generator call raising or its text not parsing as JSON, the
\* body is exactly the fixed fallback set.
C2_NeverFails ==
    \A t \in Threads :
        AnsweredGet(t) =>
            /\ response[t].status = 200
            /\ (NoCredential \/ text_response[t] = Raised \/ NotJson(t))
                   => response[t].body = fallback_questions

C2_Witness ==
    /\ \E t \in Threads : AnsweredGet(t) /\ text_response[t] = Raised
    /\ \E t \in Threads : AnsweredGet(t) /\ NotJson(t)
                              /\ text_response[t].text # <<>>

\* C3: text that parses as JSON but has the wrong shape (not an array, or an
\* array with an element that is no object or lacks text or topic) is
\* answered with the fixed fallback set.
C3_WrongShapeFallsBack ==
    \A t \in Threads :
        (/\ AnsweredGet(t)
         /\ text_response[t].kind = "text"
         /\ Decoded[text_response[t].text].ok
         /\ WrongShape(Decoded[text_response[t].text].val))
            => response[t].body = fallback_questions

\* C4: in a process started without a credential every step leaves the
\* credential absent and the generator uncalled, and every answered GET
\* /api/questions carries the fallback set with its five topics in order.
C4_NoCredentialNeverGenerates ==
    [][NoCredential =>
          /\ NoCredential'
          /\ genCalls' = 0
          /\ \A t \in Threads :
                 /\ pc'[t] = "idle"
                 /\ callsOf'[t] = 0
                 /\ AnsweredGet(t)' =>
                        /\ response'[t].body = fallback_questions
                        /\ Topics(response'[t].body) =
                               <<Str("OOP Principles"), Str("Data Structures"),
                                 Str("APIs"), Str("Machine Learning"),
                                 Str("Databases")>>]_vars

C4_Witness ==
    /\ NoCredential
    /\ handled = MaxRequests
    /\ \A t \in Threads : AnsweredGet(t)

\* C5: an OPTIONS /api/questions step answers 200 with an empty body and the
\* three permissive headers, each "*", prints nothing of the provider and
\* leaves the generator uncalled, with or without a credential.
C5_PreflightShortCircuits ==
    [][\A t \in Threads :
           Preflight(t) =>
               /\ genCalls' = genCalls
               /\ callsOf'[t] = 0
               /\ printed'[t] = <<>>
               /\ pc'[t] = "idle"
               /\ response'[t].status = 200
               /\ response'[t].body = Bytes("")
               /\ \A h \in {"Access-Control-Allow-Origin",
                            "Access-Control-Allow-Headers",
                            "Access-Control-Allow-Methods"} :
                      /\ HeaderValues(response'[t], h) # <<>>
                      /\ \A i \in 1..Len(HeaderValues(response'[t], h)) :
                             HeaderValues(response'[t], h)[i] = "*"]_vars

C5_Witness ==
    /\ ~NoCredential
    /\ genCalls > 0
    /\ \E t \in Threads : AnsweredPreflight(t) /\ callsOf[t] = 0

\* C6: every response sent carries Access-Control-Allow-Origin: *,
\* Cross-Origin-Opener-Policy: same-origin and
\* Cross-Origin-Embedder-Policy: require-corp.
C6_EveryResponseCarriesHeaders ==
    \A t \in Threads :
        Answered(t) =>
            /\ <<"Access-Control-Allow-Origin", "*">>
                   \in {response[t].headers[i] : i \in 1..Len(response[t].headers)}
            /\ <<"Cross-Origin-Opener-Policy", "same-origin">>
                   \in {response[t].headers[i] : i \in 1..Len(response[t].headers)}
            /\ <<"Cross-Origin-Embedder-Policy", "require-corp">>
                   \in {response[t].headers[i] : i \in 1..Len(response[t].headers)}

C6_Witness ==
    /\ \E t \in Threads : Answered(t) /\ request[t].path = "/asset"
                              /\ response[t].status = 404
    /\ \E t \in Threads : AnsweredPreflight(t)

\* C7: whenever the generator's text parses as an array of objects, the
\* record at 0-based position i has id i+1, so the returned ids are 1..5.
C7_IdsAreOneToFive ==
    \A t \in Threads :
        (/\ AnsweredGet(t)
         /\ text_response[t].kind = "text"
         /\ Decoded[text_response[t].text].ok
         /\ ArrayOfObjects(Decoded[text_response[t].text].val))
            => /\ \A i \in 1..Len(Ids(response[t].body)) :
                      Ids(response[t].body)[i] = Num(i)
               /\ Ids(response[t].body)
                      = <<Num(1), Num(2), Num(3), Num(4), Num(5)>>

\* C8: a JSON array text T inside a json fence, a bare fence, both, or
\* whitespace is answered with the same question set as T alone.
C8_FencesAreTransparent ==
    \A t1, t2 \in Threads :
        (/\ AnsweredGet(t1) /\ text_response[t1].kind = "text"
         /\ AnsweredGet(t2) /\ text_response[t2].kind = "text"
         /\ text_response[t2].text \in ArrayTexts
         /\ \E k \in WrapKinds :
                text_response[t1].text = Wrap(k, text_response[t2].text))
            => response[t1].body = response[t2].body

C8_Witness ==
    \E t1, t2 \in Threads :
        /\ AnsweredGet(t1) /\ AnsweredGet(t2)
        /\ text_response[t2] = Returned(FiveOddIds)
        /\ text_response[t1] = Returned(Wrap("spacejson", FiveOddIds))
        /\ response[t1].body # fallback_questions

\* C9: with a credential, a GET /api/questions has called the generator
\* exactly once, while it waits for it and after it has answered, whatever
\* the other threads and the earlier requests did.
C9_OneCallPerGet ==
    ~NoCredential =>
        \A t \in Threads : request[t] = QuestionsGet => callsOf[t] = 1

C9_Witness ==
    /\ ~NoCredential
    /\ genCalls = MaxRequests
    /\ \E t \in Threads : AnsweredGet(t) /\ text_response[t] = Raised
    /\ \E t \in Threads : pc[t] = "generate_content"

\* C10: no response carries more than one Access-Control-Allow-Origin entry,
\* nor more than one entry of either isolation header.
C10_HeadersAttachedOnce ==
    \A t \in Threads :
        Answered(t) =>
            \A h \in {"Access-Control-Allow-Origin",
                      "Cross-Origin-Opener-Policy",
                      "Cross-Origin-Embedder-Policy"} :
                Len(HeaderValues(response[t], h)) = 1

====
